---- MODULE Spec2Model ----
(***************************************************************************)
(* Model of the step executor (ExecutionAgent.execute_step), the weather   *)
(* retrieval pipeline (ExecutionAgent._execute_weather_with_browser) and   *)
(* the plan reconciler (PlannerAgent.create_plan / update_plan).           *)
(*                                                                         *)
(* Texts are sequences of characters.  An ASCII character is the one-letter*)
(* string; a CJK character is written as its pinyin: "bei","jing" = the    *)
(* literal city token, "tian","qi" = the weather keyword, "ming" = the     *)
(* first character of "tomorrow" (whose second character is "tian").       *)
(***************************************************************************)
EXTENDS Integers, Sequences, FiniteSets, TLC

\* ------------------------------------------------------------------ bounds
MaxSteps == 2        \* longest plan, and longest list the planner returns
MaxLoopEvents == 2   \* most events one run of the tool loop produces
MaxRuns == 1         \* most execute_step invocations in one behaviour
MaxUuid == MaxSteps + 1
MaxParts == 2   \* most generated step identifiers

\* --------------------------------------------------------------- text
\* a missing or non-string value (None, a number, ...); no text equals it
NoText == <<"#none">>

IsStr(x) == x # NoText

Max(S) == CHOOSE x \in S : \A y \in S : y <= x
Min(S) == CHOOSE x \in S : \A y \in S : x <= y

\* "p in t" of Python: p is a contiguous part of t.
Contains(t, p) ==
    \E i \in 1..(Len(t) - Len(p) + 1) : SubSeq(t, i, i + Len(p) - 1) = p

\* str.lower() on the characters the model uses.
LowerChar(c) ==
    CASE c = "W" -> "w"
      [] c = "N" -> "n"
      [] c = "Y" -> "y"
      [] c = "H" -> "h"
      [] c = "K" -> "k"
      [] OTHER -> c

Lower(t) == [i \in 1..Len(t) |-> LowerChar(t[i])]

IsSpace(c) == c = " "

\* str.strip(): drops leading and trailing whitespace.
Strip(t) ==
    LET keep == {i \in 1..Len(t) : ~IsSpace(t[i])}
    IN  IF keep = {} THEN <<>> ELSE SubSeq(t, Min(keep), Max(keep))

\* str.replace(token, ""): removes every occurrence of token, left to right.
RECURSIVE Remove(_, _)
Remove(t, token) ==
    IF Len(t) < Len(token) \/ Len(token) = 0 THEN t
    ELSE IF SubSeq(t, 1, Len(token)) = token
         THEN Remove(SubSeq(t, Len(token) + 1, Len(t)), token)
         ELSE <<t[1]>> \o Remove(Tail(t), token)

RECURSIVE RemoveEach(_, _)
RemoveEach(t, tokens) ==
    IF tokens = <<>> THEN t ELSE RemoveEach(Remove(t, Head(tokens)), Tail(tokens))

TianQi == <<"tian", "qi">>                \* the weather keyword
WeatherWord == <<"w", "e", "a", "t", "h", "e", "r">>
BeiJing == <<"bei", "jing">>              \* the literal city token

\* tokens removed from a city matched by the third pattern
CityNoise ==
    << <<"ming", "tian">>, <<"jin", "tian">>, <<"hou", "tian">>, <<"de">>,
       <<"wan", "shang">>, <<"bai", "tian">>, <<"ye", "jian">> >>

Upper == {"W", "N", "Y", "H", "K"}
Letters == Upper \cup {"w", "e", "a", "t", "h", "r", "i", "n", "s", "o", "k", "y"}

\* The class [A-Za-z\\s] of the first pattern as the regex engine reads it:
\* the letters and the backslash (no whitespace).
InCityClass(c) == c \in Letters \cup {"\\"}

\* The class [\\u4e00-\\u9fff] of the third pattern as the regex engine reads
\* it: backslash, "u", "4", "e", the range "0".."\", "9", "f"; that is the
\* digits, : ; < = > ? @, the capitals, "[", backslash and u, e, f.
InHanClass(c) == c \in Upper \cup {"\\", "u", "e", "f", "0", "1", "4", "9"}

\* weather\\s+in\\s+([A-Za-z\\s]+) with IGNORECASE: "weather", a backslash,
\* one or more "s", "in", a backslash, one or more "s", then the group.
\* Match1(t, p, a, b, g): a match at p with a and b letters "s" and a group
\* of g characters.
Match1(t, p, a, b, g) ==
    LET l == Lower(t)
        q == p + 7          \* first backslash
        r == q + 1 + a      \* "in"
        u == r + 2          \* second backslash
        v == u + 1 + b      \* the group
    IN  /\ v + g - 1 <= Len(t)
        /\ SubSeq(l, p, p + 6) = WeatherWord
        /\ l[q] = "\\"
        /\ \A k \in (q + 1)..(q + a) : l[k] = "s"
        /\ SubSeq(l, r, r + 1) = <<"i", "n">>
        /\ l[u] = "\\"
        /\ \A k \in (u + 1)..(u + b) : l[k] = "s"
        /\ \A k \in v..(v + g - 1) : InCityClass(t[k])

\* re.search: the leftmost match, each quantifier greedy in turn.
Search1(t) ==
    LET n == Len(t)
        starts == {p \in 1..(n - 6) : SubSeq(Lower(t), p, p + 6) = WeatherWord}
        ms == {m \in starts \X (1..n) \X (1..n) \X (1..n) :
                  Match1(t, m[1], m[2], m[3], m[4])}
    IN  IF ms = {} THEN NoText
        ELSE LET p == Min({m[1] : m \in ms})
                 a == Max({m[2] : m \in {x \in ms : x[1] = p}})
                 b == Max({m[3] : m \in {x \in ms : x[1] = p /\ x[2] = a}})
                 g == Max({m[4] : m \in {x \in ms : x[1] = p /\ x[2] = a /\ x[3] = b}})
                 v == p + 7 + 1 + a + 2 + 1 + b
             IN  SubSeq(t, v, v + g - 1)

\* ([\\u4e00-\\u9fff]{2,8})[^\\u4e00-\\u9fff]*<keyword>: a group of g class
\* characters at p, characters outside the class, the keyword at q.
Match3(t, p, g, q) ==
    /\ g \in 2..8
    /\ p + g <= q
    /\ q + 1 <= Len(t)
    /\ \A k \in p..(p + g - 1) : InHanClass(t[k])
    /\ \A k \in (p + g)..(q - 1) : ~InHanClass(t[k])
    /\ SubSeq(t, q, q + 1) = TianQi

Search3(t) ==
    LET n == Len(t)
        ends == {q \in 1..(n - 1) : SubSeq(t, q, q + 1) = TianQi}
        ms == {m \in (1..n) \X (2..8) \X ends : Match3(t, m[1], m[2], m[3])}
    IN  IF ms = {} THEN NoText
        ELSE LET p == Min({m[1] : m \in ms})
                 g == Max({m[2] : m \in {x \in ms : x[1] = p}})
             IN  SubSeq(t, p, p + g - 1)

\* the extraction with the patterns tried before the literal token
ExtractWeatherCityPatternsFirst(text) ==
    IF Search1(text) # NoText THEN Strip(Search1(text))
    ELSE IF Search3(text) # NoText /\ Strip(RemoveEach(Search3(text), CityNoise)) # <<>>
         THEN Strip(RemoveEach(Search3(text), CityNoise))
    ELSE IF Contains(text, BeiJing) THEN BeiJing
    ELSE NoText

\* _extract_weather_city: the literal token, then the two patterns in order.
ExtractWeatherCity(text) ==
    IF Contains(text, BeiJing) THEN BeiJing
    ELSE IF Search1(text) # NoText THEN Strip(Search1(text))
    ELSE IF Search3(text) # NoText /\ Strip(RemoveEach(Search3(text), CityNoise)) # <<>>
         THEN Strip(RemoveEach(Search3(text), CityNoise))
    ELSE NoText

\* _is_weather_query of the planner
IsWeatherQuery(text) ==
    IF ~IsStr(text) \/ Strip(text) = <<>> THEN FALSE
    ELSE Contains(text, TianQi) \/ Contains(Lower(text), WeatherWord)

\* The inbound messages the model draws from.
Messages ==
    { <<"h", "i">>,                                                    \* generic
      <<"bei", "jing", "tian", "qi">>,                                 \* literal city, keyword
      <<"W", "e", "a", "t", "h", "e", "r", " ", "bei", "jing">>,       \* literal city, English
      <<"tian", "qi">>,                                                \* keyword, no city
      <<"N", "Y", "ming", "tian", "tian", "qi">>,                      \* third pattern
      <<"w", "e", "a", "t", "h", "e", "r", "\\", "s", "i", "n", "\\", "s", "s", "N", "Y">>,
      <<"H", "K", "tian", "qi", "bei", "jing">> }                      \* literal and pattern


\* ------------------------------------------------------------ plan, steps
PENDING == "pending"
RUNNING == "running"
COMPLETED == "completed"
FAILED == "failed"

\* Step.model_validate of a sanitized entry: a new step with the model's
\* defaults (status PENDING, no result, no error, no attachments).
NewStep(id, description) ==
    [id |-> id, description |-> description, status |-> PENDING,
     success |-> FALSE, result |-> NoText, error |-> NoText, attachments |-> <<>>]

\* Step.is_done
IsDone(step) == step.status \in {COMPLETED, FAILED}

\* the identifier the step model generates when the entry has none
Uuid(n) == <<"uuid", ToString(n)>>

\* What the structured-output parser returns for a planner reply: a value
\* that is no dict, a dict whose "steps" is no list, or a dict with a list of
\* entries.  An entry is a dict with a description and an id (either may be
\* missing or no string), or no dict at all.
Item(isDict, description, id) == [isDict |-> isDict, description |-> description, id |-> id]
Items ==
    { Item(FALSE, NoText, NoText),
      Item(TRUE, <<" ", "a">>, <<"1", " ">>),
      Item(TRUE, <<"w", "e", "a", "t", "h", "e", "r", " ">>, <<" ">>),
      Item(TRUE, <<" ">>, <<"1", " ">>),
      Item(TRUE, NoText, NoText) }

SeqsUpTo(S, n) == UNION {[1..k -> S] : k \in 0..n}

Responses ==
    {[shape |-> "notdict", steps |-> <<>>], [shape |-> "nolist", steps |-> <<>>]}
        \cup {[shape |-> "list", steps |-> c] : c \in SeqsUpTo(Items, MaxSteps)}

\* the loop without the trimming: an entry with any text description is
\* kept as it is
CleanStepsUntrimmed(steps) ==
    LET kept == SelectSeq(steps, LAMBDA item : item.isDict /\ IsStr(item.description))
    IN  [k \in DOMAIN kept |->
            [description |-> kept[k].description,
             id |-> IF IsStr(kept[k].id) /\ Strip(kept[k].id) # <<>>
                    THEN Strip(kept[k].id) ELSE NoText]]

\* the loop of _sanitize_steps: entries that are dicts with a non-blank text
\* description are kept, description and id trimmed, a blank id dropped
RECURSIVE CleanSteps(_)
CleanSteps(steps) ==
    IF steps = <<>> THEN <<>>
    ELSE LET item == Head(steps)
             rest == CleanSteps(Tail(steps))
         IN  IF ~item.isDict THEN rest
             ELSE IF ~IsStr(item.description) \/ Strip(item.description) = <<>> THEN rest
             ELSE <<[description |-> Strip(item.description),
                     id |-> IF IsStr(item.id) /\ Strip(item.id) # <<>>
                            THEN Strip(item.id) ELSE NoText]>> \o rest

\* the one step that replaces the list for a weather query; "@" stands for the
\* fixed text before the city, the text after it holds the weather keyword
CanonicalStep(city) ==
    [description |-> <<"@">> \o city \o <<"?">> \o TianQi, id |-> <<"1">>]

\* the sanitizer without the replacement of the list for a weather query
SanitizeStepsNoOverride(resp, user_message) ==
    IF resp.shape # "list" THEN resp
    ELSE [resp EXCEPT !.steps = CleanSteps(resp.steps)]

\* _sanitize_steps(parsed_response, user_message)
SanitizeSteps(resp, user_message) ==
    IF resp.shape # "list" THEN resp
    ELSE [resp EXCEPT !.steps =
            IF IsWeatherQuery(user_message)
            THEN <<CanonicalStep(IF ExtractWeatherCity(user_message) # NoText
                                 THEN ExtractWeatherCity(user_message) ELSE BeiJing)>>
            ELSE CleanSteps(resp.steps)]

\* Plan.model_validate accepts a dict whose "steps" is a list of entries
PlanValid(resp) == resp.shape = "list"

\* number of entries among the first k that get a generated identifier
NoIdCount(steps, k) == Cardinality({j \in 1..k : steps[j].id = NoText})

\* [Step.model_validate(step) for step in updated_plan.steps]; base is the
\* number of identifiers generated so far
NewSteps(steps, base) ==
    [k \in 1..Len(steps) |->
        NewStep(IF steps[k].id = NoText THEN Uuid(base + NoIdCount(steps, k))
                ELSE steps[k].id,
                steps[k].description)]

\* the index of the first step that is not done; 0 when every step is done
FirstPendingIndex(steps) ==
    IF \E i \in 1..Len(steps) : ~IsDone(steps[i])
    THEN Min({i \in 1..Len(steps) : ~IsDone(steps[i])})
    ELSE 0

\* the splice with the slice taken one step too far: the first pending step
\* is kept
SpliceStepsKeepsPending(steps, new_steps) ==
    IF FirstPendingIndex(steps) # 0
    THEN SubSeq(steps, 1, FirstPendingIndex(steps)) \o new_steps
    ELSE steps

\* the splice that adds the new steps also when no step is pending
SpliceStepsAlwaysAdds(steps, new_steps) ==
    IF FirstPendingIndex(steps) # 0
    THEN SubSeq(steps, 1, FirstPendingIndex(steps) - 1) \o new_steps
    ELSE steps \o new_steps

\* the splice of update_plan: the steps before the first pending one, then
\* the new steps; unchanged when no step is pending
SpliceSteps(steps, new_steps) ==
    IF FirstPendingIndex(steps) # 0
    THEN SubSeq(steps, 1, FirstPendingIndex(steps) - 1) \o new_steps
    ELSE steps


\* ------------------------------------------------------------------ events
NoStep == [NewStep(NoText, NoText) EXCEPT !.status = "none"]

StepEvent(status, step) ==
    [type |-> "step", status |-> status, name |-> "", args |-> NoText, id |-> 0, step |-> step]
ToolEvent(status, id, name, args) ==
    [type |-> "tool", status |-> status, name |-> name, args |-> args, id |-> id, step |-> NoStep]
MessageEvent(text) ==
    [type |-> "message", status |-> "", name |-> "", args |-> text, id |-> 0, step |-> NoStep]
ErrorEvent(text) ==
    [type |-> "error", status |-> "", name |-> "", args |-> text, id |-> 0, step |-> NoStep]
WaitEvent ==
    [type |-> "wait", status |-> "", name |-> "", args |-> NoText, id |-> 0, step |-> NoStep]

IsTerminal(e) == e.type = "step" /\ e.status \in {"completed", "failed"}

\* What the tool loop (execute) can yield: an ErrorEvent, a MessageEvent, the
\* two ToolEvents of the ask-user function (its "text" argument present or
\* not) and the ToolEvents of any other function.
PromptText == <<"o", "k", "?">>
ErrorText == <<"e", "r", "r">>
LoopEvents ==
    { ErrorEvent(ErrorText),
      MessageEvent(<<"{", "}">>),
      ToolEvent("calling", 1, "message_ask_user", PromptText),
      ToolEvent("calling", 1, "message_ask_user", NoText),
      ToolEvent("called", 1, "message_ask_user", PromptText),
      ToolEvent("calling", 2, "shell_exec", NoText),
      ToolEvent("called", 2, "shell_exec", NoText) }

\* What json_parser.parse followed by Step.model_validate gives for the body
\* of a MessageEvent: a failure, or the success flag, the result text (which
\* may be missing or empty) and the attachments.
ParsedSteps ==
    { [ok |-> FALSE, success |-> FALSE, result |-> NoText, attachments |-> <<>>],
      [ok |-> TRUE, success |-> TRUE, result |-> <<"r">>, attachments |-> <<"f">>],
      [ok |-> TRUE, success |-> FALSE, result |-> <<>>, attachments |-> <<>>] }

\* truth value of an optional text: neither None nor empty
TextTruthy(t) == IsStr(t) /\ t # <<>>

\* ------------------------------------------------- weather payloads, texts
\* Fixed template text is written as one token per phrase.  Han is the set of
\* CJK characters and CJK phrases the model uses.
Han ==
    {"bei", "jing", "tian", "qi", "ming", "jin", "hou", "de", "wan", "shang",
     "bai", "ye", "jian", "zui-gao", "zui-di", "jiang-shui-gai-lv", "lai-yuan",
     "yi-huo-qu-tian-qi-yu-bao", "wu-fa-huo-qu", "shu-ju", "wo-jiang-cha-xun",
     "bing-qie-huan-shu-ju-yuan", "wei-zhi", "tian-qi-dai-ma", "qing",
     "da-bu-qing-lang", "duo-yun", "yin", "wu", "wu-song", "mao-mao-yu",
     "xiao-yu", "zhong-yu", "da-yu", "xiao-xue", "zhong-xue", "da-xue",
     "zhen-yu", "qiang-zhen-yu", "lei-bao", "lei-bao-ban-bing-bao",
     "qiang-lei-bao-ban-bing-bao"}

\* a text is Chinese when it holds a CJK character
InChinese(t) == \E i \in 1..Len(t) : t[i] \in Han

\* "tian qi" in user_text: the locale choice of every rendered text
Zh(text) == Contains(text, TianQi)

\* Joins texts with a separator (str.join).
RECURSIVE Join(_, _)
Join(parts, sep) ==
    IF parts = <<>> THEN <<>>
    ELSE IF Len(parts) = 1 THEN parts[1]
    ELSE parts[1] \o sep \o Join(Tail(parts), sep)

\* A JSON value as the pipeline sees it: None, a falsy value ({}, [], 0, ""),
\* a truthy value that is no dict (a list, a number, a string), or a dict.
\* A wttr dict has "weather"; a forecast dict may have "daily".
NoWeather == [isList |-> FALSE, days |-> <<>>]
NoDaily ==
    [present |-> FALSE, isDict |-> FALSE, lists |-> FALSE, time |-> <<>>,
     max |-> <<>>, min |-> <<>>, code |-> <<>>, rainIsList |-> FALSE, rain |-> <<>>]
Value(kind, weather, daily) == [kind |-> kind, weather |-> weather, daily |-> daily]
None == Value("none", NoWeather, NoDaily)
Falsy == Value("falsy", NoWeather, NoDaily)
Scalar == Value("scalar", NoWeather, NoDaily)

\* Python truth value of a parsed body
Truthy(v) == v.kind \in {"scalar", "dict"}

\* one entry of the wttr "weather" list
Day(isDict, maxtemp, mintemp, desc, rain) ==
    [isDict |-> isDict, maxtemp |-> maxtemp, mintemp |-> mintemp, desc |-> desc,
     rain |-> rain]
FullDay == Day(TRUE, <<"9">>, <<"1">>, <<"S", "u", "n">>, <<"4", "0">>)
HalfDay == Day(TRUE, <<"9">>, NoText, NoText, NoText)
NoDay == Day(FALSE, NoText, NoText, NoText, NoText)

WttrValues ==
    { None, Falsy, Scalar,
      Value("dict", NoWeather, NoDaily),
      Value("dict", [isList |-> TRUE, days |-> <<FullDay>>], NoDaily),
      Value("dict", [isList |-> TRUE, days |-> <<FullDay, HalfDay>>], NoDaily),
      Value("dict", [isList |-> TRUE, days |-> <<FullDay, NoDay>>], NoDaily) }

\* The content handed to _parse_weather_json: a dict, a value that is no
\* string, a blank string, a string that is JSON, a string with a JSON object
\* between its first "{" and last "}", the same with a broken object, or a
\* string without braces that is no JSON.
Content(form, value) == [form |-> form, value |-> value]
WttrContents ==
    {Content("nostr", None), Content("blank", None), Content("garbage", None),
     Content("brokenwrap", None)}
        \cup {Content("json", v) : v \in WttrValues \ {None}}
        \cup {Content("wrapped", Value("dict", [isList |-> TRUE, days |-> <<FullDay>>], NoDaily)),
              Content("dict", Value("dict", [isList |-> TRUE, days |-> <<FullDay>>], NoDaily))}

\* _parse_weather_json
ParseWeatherJson(content) ==
    CASE content.form = "dict" -> content.value
      [] content.form \in {"nostr", "blank"} -> None
      [] content.form = "json" -> content.value
      [] content.form = "wrapped" -> content.value
      [] OTHER -> None

\* a network reply: a failure (timeout, connection, non-2xx) or a body
NetFail == Content("netfail", None)

\* _fetch_weather_json: None on a network failure, else the parsed body
FetchWeatherJson(reply) ==
    IF reply.form = "netfail" THEN None ELSE ParseWeatherJson(reply)

\* _format_weather_result raises when data has no "get" (it is no dict)
FormatWeatherRaises(d) == d.kind # "dict"

\* _format_weather_result on a dict
FormatWeatherResult(d, c, text) ==
    IF ~d.weather.isList \/ d.weather.days = <<>> THEN NoText
    ELSE LET days == d.weather.days
             day == IF Len(days) > 1 THEN days[2] ELSE days[1]
             temps == IsStr(day.maxtemp) /\ IsStr(day.mintemp)
         IN  IF ~day.isDict THEN NoText
             ELSE IF Zh(text)
             THEN LET details ==
                          (IF TextTruthy(day.desc)
                           THEN << <<"tian", "qi", ":">> \o day.desc >> ELSE <<>>)
                          \o (IF temps
                              THEN << <<"zui-gao">> \o day.maxtemp \o <<"C", ",", "zui-di">>
                                      \o day.mintemp \o <<"C">> >>
                              ELSE <<>>)
                          \o (IF IsStr(day.rain)
                              THEN << <<"jiang-shui-gai-lv">> \o day.rain \o <<"%">> >>
                              ELSE <<>>)
                  IN  c \o <<"ming", "tian">>
                        \o (IF details # <<>> THEN Join(details, <<",">>)
                            ELSE <<"yi-huo-qu-tian-qi-yu-bao">>)
                        \o <<"(", "lai-yuan", "wttr.in", ")">>
             ELSE LET details ==
                          (IF TextTruthy(day.desc)
                           THEN << <<"Conditions: ">> \o day.desc >> ELSE <<>>)
                          \o (IF temps
                              THEN << <<"High ">> \o day.maxtemp \o <<"C", ",", "Low ">>
                                      \o day.mintemp \o <<"C">> >>
                              ELSE <<>>)
                          \o (IF IsStr(day.rain)
                              THEN << <<"Chance of rain ">> \o day.rain \o <<"%">> >>
                              ELSE <<>>)
                  IN  <<"Tomorrow in ">> \o c \o <<":">>
                        \o (IF details # <<>> THEN Join(details, <<",">>)
                            ELSE <<"Forecast available">>)
                        \o <<"(", "source: ", "wttr.in", ")">>

\* --------------------------------------------------- the secondary provider
\* The "daily" entry of a forecast.  Dates are "d0" (today, UTC+8), "d1"
\* (tomorrow), ...; list entries are written as tokens, None as "None".
TomorrowDate == "d1"
Daily(time, max, min, code, rainIsList, rain) ==
    [present |-> TRUE, isDict |-> TRUE, lists |-> TRUE, time |-> time, max |-> max,
     min |-> min, code |-> code, rainIsList |-> rainIsList, rain |-> rain]

Dailies ==
    { Daily(<<"d0", "d1">>, <<"5", "10">>, <<"1", "2">>, <<"0", "3">>, TRUE, <<"20", "40">>),
      Daily(<<"d-1", "d0", "d1">>, <<"4", "5", "10">>, <<"0", "1", "2">>, <<"1", "0", "3">>,
            TRUE, <<"10", "20", "40">>),
      Daily(<<"d5", "d6">>, <<"5", "10">>, <<"1", "2">>, <<"0", "3">>, TRUE, <<"20", "40">>),
      Daily(<<"d-1", "d0", "d1">>, <<"5", "10">>, <<"1", "2">>, <<"0", "3">>, TRUE, <<"20", "40">>),
      Daily(<<"d1">>, <<"10">>, <<"2">>, <<"3">>, TRUE, <<"40">>),
      Daily(<<"d0", "d1">>, <<"5", "10">>, <<"1", "2">>, <<"0", "3">>, FALSE, <<>>),
      Daily(<<"d0", "d1">>, <<"5", "10">>, <<"1", "2">>, <<"0", "3">>, TRUE, <<"20">>),
      Daily(<<"d0", "d1">>, <<"5", "10">>, <<"1", "2">>, <<"0", "3">>, TRUE, <<"20", "None">>),
      Daily(<<"d0", "d1">>, <<"5", "10">>, <<"1", "2">>, <<"0", "7">>, TRUE, <<"20", "40">>),
      Daily(<<"d0", "d1">>, <<"5", "10">>, <<"1", "2">>, <<"0", "x">>, FALSE, <<>>),
      [Daily(<<>>, <<>>, <<>>, <<>>, FALSE, <<>>) EXCEPT !.lists = FALSE],
      [Daily(<<>>, <<>>, <<>>, <<>>, FALSE, <<>>) EXCEPT !.isDict = FALSE, !.lists = FALSE] }

\* the replies of the forecast request
ForecastReplies ==
    {NetFail, Content("garbage", None), Content("json", Falsy), Content("json", Scalar),
     Content("json", Value("dict", NoWeather, NoDaily))}
        \cup {Content("json", Value("dict", NoWeather, d)) : d \in Dailies}

\* A reply of the geocoding request: a failure (network, parse, no "results"
\* list, an empty one), or a first result that is a dict or not, with both
\* coordinates or not.
GeoReplies ==
    { [found |-> FALSE, isDict |-> FALSE, coords |-> FALSE],
      [found |-> TRUE, isDict |-> FALSE, coords |-> FALSE],
      [found |-> TRUE, isDict |-> TRUE, coords |-> FALSE],
      [found |-> TRUE, isDict |-> TRUE, coords |-> TRUE] }

\* the names looked up: the city, then the alias of the literal token
GeoNames(c) == IF c = BeiJing THEN <<c, <<"B", "e", "i", "j", "i", "n", "g">> >> ELSE <<c>>

\* _fetch_open_meteo for a list of names: geos[k] is the reply to the lookup
\* of the k-th name, reply the reply to the forecast request.  None, or the
\* forecast dict.
FetchOpenMeteo(names, geos, reply) ==
    LET hits == {k \in 1..Len(names) : geos[k].found}
        results == IF hits = {} THEN geos[1] ELSE geos[Min(hits)]
        forecast == ParseWeatherJson(reply)
    IN  IF hits = {} \/ ~results.isDict \/ ~results.coords THEN None
        ELSE IF reply.form = "netfail" THEN None
        ELSE IF ~Truthy(forecast) \/ forecast.kind # "dict" \/ ~forecast.daily.present
             THEN None
        ELSE forecast

\* _open_meteo_code_to_text
MappingZh(code) ==
    CASE code = "0" -> "qing" [] code = "1" -> "da-bu-qing-lang" [] code = "2" -> "duo-yun"
      [] code = "3" -> "yin" [] code = "45" -> "wu" [] code = "48" -> "wu-song"
      [] code \in {"51", "53", "55"} -> "mao-mao-yu"
      [] code = "61" -> "xiao-yu" [] code = "63" -> "zhong-yu" [] code = "65" -> "da-yu"
      [] code = "71" -> "xiao-xue" [] code = "73" -> "zhong-xue" [] code = "75" -> "da-xue"
      [] code \in {"80", "81"} -> "zhen-yu" [] code = "82" -> "qiang-zhen-yu"
      [] code = "95" -> "lei-bao" [] code = "96" -> "lei-bao-ban-bing-bao"
      [] code = "99" -> "qiang-lei-bao-ban-bing-bao"
      [] OTHER -> ""
MappingEn(code) ==
    CASE code = "0" -> "Clear" [] code = "1" -> "Mainly clear" [] code = "2" -> "Partly cloudy"
      [] code = "3" -> "Overcast" [] code = "45" -> "Fog" [] code = "48" -> "Depositing rime fog"
      [] code \in {"51", "53", "55"} -> "Drizzle"
      [] code \in {"61", "63"} -> "Rain" [] code = "65" -> "Heavy rain"
      [] code \in {"71", "73"} -> "Snow" [] code = "75" -> "Heavy snow"
      [] code \in {"80", "81"} -> "Rain showers" [] code = "82" -> "Violent rain showers"
      [] code = "95" -> "Thunderstorm" [] code = "96" -> "Thunderstorm with hail"
      [] code = "99" -> "Thunderstorm with heavy hail"
      [] OTHER -> ""
\* int(code) fails for "x" and for None
IsIntCode(code) == code \notin {"x", "None"}
OpenMeteoCodeToText(code, zh) ==
    IF ~IsIntCode(code) THEN (IF zh THEN <<"wei-zhi">> ELSE <<"Unknown">>)
    ELSE IF zh
         THEN (IF MappingZh(code) # "" THEN <<MappingZh(code)>>
               ELSE <<"tian-qi-dai-ma", code>>)
         ELSE (IF MappingEn(code) # "" THEN <<MappingEn(code)>>
               ELSE <<"Weather code ", code>>)

\* the index (from 1) of the entry for tomorrow: where the date of tomorrow
\* is in the time series, else the second entry
TomorrowIdx(time) ==
    IF \E k \in 1..Len(time) : time[k] = TomorrowDate
    THEN Min({k \in 1..Len(time) : time[k] = TomorrowDate})
    ELSE 2

\* the checks of _format_open_meteo_result that make it return None
OpenMeteoUsable(f) ==
    /\ f.daily.isDict
    /\ f.daily.lists
    /\ Len(f.daily.time) >= 2 /\ Len(f.daily.max) >= 2
    /\ Len(f.daily.min) >= 2 /\ Len(f.daily.code) >= 2

\* _format_open_meteo_result raises IndexError when a series is shorter than
\* the index of tomorrow
FormatOpenMeteoRaises(f) ==
    /\ OpenMeteoUsable(f)
    /\ \/ TomorrowIdx(f.daily.time) > Len(f.daily.max)
       \/ TomorrowIdx(f.daily.time) > Len(f.daily.min)
       \/ TomorrowIdx(f.daily.time) > Len(f.daily.code)

\* _format_open_meteo_result when it does not raise
FormatOpenMeteoResult(f, c, text) ==
    IF ~OpenMeteoUsable(f) THEN NoText
    ELSE LET d == f.daily
             i == TomorrowIdx(d.time)
             rain == IF d.rainIsList /\ Len(d.rain) >= i THEN d.rain[i] ELSE "None"
             desc == OpenMeteoCodeToText(d.code[i], Zh(text))
         IN  IF Zh(text)
             THEN c \o <<"ming", "tian">>
                    \o Join(<< <<"tian", "qi", ":">> \o desc,
                               <<"zui-gao", d.max[i], "C", ",", "zui-di", d.min[i], "C">> >>
                            \o (IF rain # "None"
                                THEN << <<"jiang-shui-gai-lv", rain, "%">> >> ELSE <<>>),
                            <<",">>)
                    \o <<"(", "lai-yuan", "open-meteo.com", ")">>
             ELSE <<"Tomorrow in ">> \o c \o <<":">>
                    \o Join(<< <<"Conditions: ">> \o desc,
                               <<"High ", d.max[i], "C", ",", "Low ", d.min[i], "C">> >>
                            \o (IF rain # "None"
                                THEN << <<"Precip prob ", rain, "%">> >> ELSE <<>>),
                            <<",">>)
                    \o <<"(", "source: ", "open-meteo.com", ")">>

\* ------------------------------------------------------------------- state
VARIABLES
    plan,            \* plan.steps
    created,         \* a plan has been created
    uuids,           \* identifiers generated so far
    lastOp,          \* the operation that ran last
    restrict_tools,  \* ExecutionAgent._restrict_tools
    pc,              \* where execute_step is suspended ("idle": not running)
    cur,             \* index in plan of the step being executed
    user_text,       \* message.message of the invocation
    city,            \* the extracted city of the invocation
    emitted,         \* the events the invocation has yielded so far
    queue,           \* events the running code yields next, in order
    exit,            \* how the last invocation ended
    nloop,           \* tool-loop events consumed by the invocation
    runs,            \* execute_step invocations so far
    data,            \* the pipeline's local "data" (the parsed browser result)
    wttr_data,       \* the pipeline's local "wttr_data" (the first direct fetch)
    fetched,         \* requests of the invocation so far, to each provider
    new_steps,       \* update_plan's local "new_steps" (the validated reply)
    user_message,    \* the message the planner is given, where it is checked alone
    parsed_response  \* the reply the planner is given, where it is checked alone

vars == <<plan, created, uuids, lastOp, restrict_tools, pc, cur, user_text,
          city, emitted, queue, exit, nloop, runs, data, wttr_data, fetched, new_steps,
          user_message, parsed_response>>

\* no request has been made
NoFetches == [wttr |-> 0, open_meteo |-> 0]

\* no reply is recorded
NoReply == [shape |-> "none", steps |-> <<>>]

Init ==
    /\ plan = <<>>
    /\ created = FALSE
    /\ uuids = 0
    /\ lastOp = "none"
    /\ restrict_tools = FALSE
    /\ pc = "idle"
    /\ cur = 0
    /\ user_text = <<>>
    /\ city = NoText
    /\ emitted = <<>>
    /\ queue = <<>>
    /\ exit = "none"
    /\ nloop = 0
    /\ runs = 0
    /\ data = None
    /\ wttr_data = None
    /\ fetched = NoFetches
    /\ new_steps = <<>>
    /\ user_message = <<>>
    /\ parsed_response = NoReply

execVars ==
    <<restrict_tools, pc, cur, user_text, city, emitted, queue, exit, nloop, runs, data,
      wttr_data, fetched>>

\* ------------------------------------------------------------ the planner
\* create_plan, for the MessageEvent of the planner: the reply is sanitized
\* with the inbound message, validated and becomes the plan.  A reply the
\* plan model rejects raises and leaves no plan.
CreatePlan(m, resp) ==
    LET clean == SanitizeSteps(resp, m)
    IN  /\ ~created
        /\ PlanValid(clean)
        /\ uuids + NoIdCount(clean.steps, Len(clean.steps)) <= MaxUuid
        /\ plan' = NewSteps(clean.steps, uuids)
        /\ uuids' = uuids + NoIdCount(clean.steps, Len(clean.steps))
        /\ created' = TRUE
        /\ lastOp' = "create_plan"
        /\ UNCHANGED <<execVars, new_steps, user_message, parsed_response>>

\* _sanitize_steps(parsed_response) of each planner reply, as update_plan
\* calls it (without a message)
Sanitized == [resp \in Responses |-> SanitizeSteps(resp, <<>>)]

\* update_plan, for one MessageEvent of the planner: the reply is sanitized
\* (without a message), validated, and spliced into the plan.
UpdatePlan(resp) ==
    LET clean == Sanitized[resp]
        validated == NewSteps(clean.steps, uuids)
    IN  /\ created
        /\ pc = "idle"
        /\ PlanValid(clean)
        /\ uuids + NoIdCount(clean.steps, Len(clean.steps)) <= MaxUuid
        /\ Len(SpliceSteps(plan, validated)) <= MaxSteps
        /\ new_steps' = validated
        /\ plan' = SpliceSteps(plan, validated)
        /\ uuids' = uuids + NoIdCount(clean.steps, Len(clean.steps))
        /\ lastOp' = "update_plan"
        /\ emitted' = <<>> /\ exit' = "none" /\ cur' = 0
        /\ UNCHANGED <<created, user_message, parsed_response, restrict_tools, pc,
                       user_text, city, queue, nloop, runs, data,
                       wttr_data, fetched>>

\* update_plan when the plan model rejects the reply: model_validate raises
\* before the splice and the plan is left as it was.
UpdatePlanRejected(resp) ==
    /\ created
    /\ pc = "idle"
    /\ ~PlanValid(Sanitized[resp])
    /\ lastOp' = "update_plan_rejected"
    /\ new_steps' = <<>>
    /\ emitted' = <<>> /\ exit' = "none" /\ cur' = 0
    /\ UNCHANGED <<plan, created, user_message, parsed_response, uuids, restrict_tools,
                   pc, user_text, city, queue, nloop,
                   runs, data, wttr_data, fetched>>


\* ---------------------------------------------------------- execute_step
\* force_weather of execute_step
ForceWeather(text, description) ==
    \/ Contains(text, TianQi)
    \/ Contains(Lower(text), WeatherWord)
    \/ Contains(description, TianQi)
    \/ Contains(Lower(description), WeatherWord)

\* _extract_weather_city of each inbound message
ExtractedCity == [m \in Messages |-> ExtractWeatherCity(m)]

\* city of execute_step
StepCity(text, description) ==
    IF ForceWeather(text, description) THEN ExtractedCity[text] ELSE NoText

\* the tools the agent is constructed with, by name
Tools == {"search", "browser", "shell", "message"}

\* get_available_tools: every tool, or every tool but "search" while the
\* flag is set
GetAvailableTools == IF ~restrict_tools THEN Tools ELSE {tool \in Tools : tool # "search"}

\* the driver starts a step that is not done while no step is running
CanStart(i) ==
    /\ created
    /\ pc = "idle"
    /\ runs < MaxRuns
    /\ i \in DOMAIN plan
    /\ ~IsDone(plan[i])

\* the invocation yields evs one after the other and then goes on at label
Yield(evs, label) ==
    /\ emitted' = Append(emitted, Head(evs))
    /\ queue' = Tail(evs)
    /\ pc' = label

\* the invocation ends without yielding again; its locals are gone
Exit(how) ==
    /\ pc' = "idle"
    /\ exit' = how
    /\ queue' = <<>>
    /\ data' = None
    /\ wttr_data' = None
    /\ fetched' = NoFetches
    /\ user_text' = <<>>
    /\ city' = NoText
    /\ nloop' = 0
    /\ UNCHANGED emitted

SetStep(f) == plan' = [plan EXCEPT ![cur] = f]

\* the identifier _call_tool gives its pair of events
CallId == Cardinality({k \in DOMAIN emitted : emitted[k].status = "calling"}) + 1

\* a pair of events whose CALLED event carries another identifier
CallToolFreshIds(name, args) ==
    <<ToolEvent("calling", CallId, name, args), ToolEvent("called", CallId + 1, name, args)>>

\* _call_tool: the CALLING and the CALLED event of one invocation
CallTool(name, args) ==
    <<ToolEvent("calling", CallId, name, args), ToolEvent("called", CallId, name, args)>>

\* StepEvent(STARTED) of a step whose status was set before the yield
StartedEventStale(i) == StepEvent("started", plan[i])

\* StepEvent(STARTED) of step i, yielded after its status is set to RUNNING
StartedEvent(i) == StepEvent("started", plan'[i])

\* execute_step with a city that also restricts the tool set
StartWeatherRestricts(i, m) ==
    /\ CanStart(i)
    /\ TextTruthy(StepCity(m, plan[i].description))
    /\ plan' = [plan EXCEPT ![i].status = RUNNING]
    /\ cur' = i
    /\ user_text' = m
    /\ city' = StepCity(m, plan[i].description)
    /\ emitted' = <<StartedEvent(i)>>
    /\ queue' = <<>>
    /\ pc' = "w_started"
    /\ exit' = "none"
    /\ nloop' = 0
    /\ runs' = runs + 1
    /\ lastOp' = "_execute_weather_with_browser"
    /\ new_steps' = <<>>
    /\ restrict_tools' = TRUE
    /\ UNCHANGED <<created, user_message, parsed_response, uuids, data, wttr_data, fetched>>

\* execute_step with a city: the retrieval pipeline up to StepEvent(STARTED)
StartWeather(i, m) ==
    /\ CanStart(i)
    /\ TextTruthy(StepCity(m, plan[i].description))
    /\ plan' = [plan EXCEPT ![i].status = RUNNING]
    /\ cur' = i
    /\ user_text' = m
    /\ city' = StepCity(m, plan[i].description)
    /\ emitted' = <<StartedEvent(i)>>
    /\ queue' = <<>>
    /\ pc' = "w_started"
    /\ exit' = "none"
    /\ nloop' = 0
    /\ runs' = runs + 1
    /\ lastOp' = "_execute_weather_with_browser"
    /\ new_steps' = <<>>
    /\ UNCHANGED <<created, user_message, parsed_response, uuids, restrict_tools, data,
                   wttr_data, fetched>>

\* execute_step without a city, up to StepEvent(STARTED): the tool set is
\* restricted when the step is a weather step
StartGeneric(i, m) ==
    /\ CanStart(i)
    /\ ~TextTruthy(StepCity(m, plan[i].description))
    /\ restrict_tools' = (IF ForceWeather(m, plan[i].description) THEN TRUE ELSE restrict_tools)
    /\ plan' = [plan EXCEPT ![i].status = RUNNING]
    /\ cur' = i
    /\ user_text' = m
    /\ city' = NoText
    /\ emitted' = <<StartedEvent(i)>>
    /\ queue' = <<>>
    /\ pc' = "g_started"
    /\ exit' = "none"
    /\ nloop' = 0
    /\ runs' = runs + 1
    /\ lastOp' = "execute_step"
    /\ new_steps' = <<>>
    /\ UNCHANGED <<created, user_message, parsed_response, uuids, data, wttr_data, fetched>>

\* the consumer asks for the next event while the running code has more to
\* yield before it does anything else
YieldNext ==
    /\ pc # "idle"
    /\ queue # <<>>
    /\ emitted' = Append(emitted, Head(queue))
    /\ queue' = Tail(queue)
    /\ UNCHANGED <<plan, created, user_message, parsed_response, uuids, lastOp,
                   restrict_tools, pc, cur, user_text,
                   city, exit, nloop, runs, data, wttr_data, fetched, new_steps>>

\* The consumer abandons the sequence where it is suspended and the
\* generator is closed there: the finally clause runs when the yield is
\* inside the try statement (the loop over the tool loop's events), not at
\* the yield of StepEvent(STARTED) before it, nor in the pipeline.
Abandon ==
    /\ pc # "idle"
    /\ restrict_tools' = (IF pc \in {"g_loop", "g_wait"} THEN FALSE ELSE restrict_tools)
    /\ Exit("abandon")
    /\ UNCHANGED <<plan, created, user_message, parsed_response, uuids, lastOp, cur, runs,
                   new_steps>>

\* the code after the yield of StepEvent(STARTED) and after each handled
\* event asks the tool loop for its next event
AtLoop == pc \in {"g_started", "g_loop"} /\ queue = <<>>

genericFrame == <<created, user_message, parsed_response, uuids, lastOp, cur, runs, new_steps>>

\* an ErrorEvent fails the step and is not forwarded
G_ErrorNotForwarded(e) ==
    /\ AtLoop /\ nloop < MaxLoopEvents
    /\ e.type = "error"
    /\ SetStep([plan[cur] EXCEPT !.status = FAILED, !.error = e.args])
    /\ Yield(<<StepEvent("failed", plan'[cur])>>, "g_loop")
    /\ nloop' = nloop + 1
    /\ UNCHANGED <<genericFrame, restrict_tools, exit, data, wttr_data, fetched, user_text, city>>

\* an ErrorEvent: the step fails; StepEvent(FAILED), then the event itself
G_Error(e) ==
    /\ AtLoop /\ nloop < MaxLoopEvents
    /\ e.type = "error"
    /\ SetStep([plan[cur] EXCEPT !.status = FAILED, !.error = e.args])
    /\ Yield(<<StepEvent("failed", plan'[cur]), e>>, "g_loop")
    /\ nloop' = nloop + 1
    /\ UNCHANGED <<genericFrame, restrict_tools, exit, data, wttr_data, fetched, user_text, city>>

\* a MessageEvent completes the step and is forwarded as it came
G_MessageForwardsRaw(e, parsed) ==
    /\ AtLoop /\ nloop < MaxLoopEvents
    /\ e.type = "message"
    /\ parsed.ok
    /\ SetStep([plan[cur] EXCEPT !.status = COMPLETED, !.success = parsed.success,
                                 !.result = parsed.result,
                                 !.attachments = parsed.attachments])
    /\ Yield(<<StepEvent("completed", plan'[cur]), e>>, "g_loop")
    /\ nloop' = nloop + 1
    /\ UNCHANGED <<genericFrame, restrict_tools, exit, data, wttr_data, fetched, user_text, city>>

\* a MessageEvent whose body parses: the step completes with the parsed
\* fields; StepEvent(COMPLETED), then a MessageEvent if there is a result
G_Message(e, parsed) ==
    /\ AtLoop /\ nloop < MaxLoopEvents
    /\ e.type = "message"
    /\ parsed.ok
    /\ SetStep([plan[cur] EXCEPT !.status = COMPLETED, !.success = parsed.success,
                                 !.result = parsed.result,
                                 !.attachments = parsed.attachments])
    /\ Yield(<<StepEvent("completed", plan'[cur])>>
               \o (IF TextTruthy(parsed.result) THEN <<MessageEvent(parsed.result)>>
                   ELSE <<>>),
             "g_loop")
    /\ nloop' = nloop + 1
    /\ UNCHANGED <<genericFrame, restrict_tools, exit, data, wttr_data, fetched, user_text, city>>

\* a MessageEvent whose body the parser or the step model rejects: the
\* status is already COMPLETED when the exception leaves through finally
G_ParseRaises(e, parsed) ==
    /\ AtLoop /\ nloop < MaxLoopEvents
    /\ e.type = "message"
    /\ ~parsed.ok
    /\ SetStep([plan[cur] EXCEPT !.status = COMPLETED])
    /\ restrict_tools' = FALSE
    /\ Exit("raise")
    /\ UNCHANGED genericFrame

\* the CALLING event of the ask-user function becomes a MessageEvent
G_AskCalling(e) ==
    /\ AtLoop /\ nloop < MaxLoopEvents
    /\ e.type = "tool" /\ e.name = "message_ask_user" /\ e.status = "calling"
    /\ Yield(<<MessageEvent(IF IsStr(e.args) THEN e.args ELSE <<>>)>>, "g_loop")
    /\ nloop' = nloop + 1
    /\ UNCHANGED <<plan, genericFrame, restrict_tools, exit, data, wttr_data, fetched,
                   user_text, city>>

\* the CALLED event of the ask-user function yields WaitEvent and the loop
\* goes on
G_AskCalledGoesOn(e) ==
    /\ AtLoop /\ nloop < MaxLoopEvents
    /\ e.type = "tool" /\ e.name = "message_ask_user" /\ e.status = "called"
    /\ Yield(<<WaitEvent>>, "g_loop")
    /\ nloop' = nloop + 1
    /\ UNCHANGED <<plan, genericFrame, restrict_tools, exit, data, wttr_data, fetched,
                   user_text, city>>

\* the CALLED event of the ask-user function: WaitEvent, then return
G_AskCalled(e) ==
    /\ AtLoop /\ nloop < MaxLoopEvents
    /\ e.type = "tool" /\ e.name = "message_ask_user" /\ e.status = "called"
    /\ Yield(<<WaitEvent>>, "g_wait")
    /\ nloop' = nloop + 1
    /\ UNCHANGED <<plan, genericFrame, restrict_tools, exit, data, wttr_data, fetched,
                   user_text, city>>

\* the return after WaitEvent, through finally
G_WaitReturn ==
    /\ pc = "g_wait"
    /\ restrict_tools' = FALSE
    /\ Exit("wait")
    /\ UNCHANGED <<plan, genericFrame>>

\* any other event is forwarded
G_Forward(e) ==
    /\ AtLoop /\ nloop < MaxLoopEvents
    /\ e.type = "tool" /\ e.name # "message_ask_user"
    /\ Yield(<<e>>, "g_loop")
    /\ nloop' = nloop + 1
    /\ UNCHANGED <<plan, genericFrame, restrict_tools, exit, data, wttr_data, fetched,
                   user_text, city>>

\* the tool loop is exhausted: finally, then the status is forced
G_Exhausted ==
    /\ AtLoop
    /\ restrict_tools' = FALSE
    /\ SetStep([plan[cur] EXCEPT !.status = COMPLETED])
    /\ Exit("return")
    /\ UNCHANGED genericFrame

\* the tool loop raises: the exception leaves through finally
G_ExecuteRaises ==
    /\ AtLoop
    /\ restrict_tools' = FALSE
    /\ Exit("raise")
    /\ UNCHANGED <<plan, genericFrame>>


\* ------------------------------------------- _execute_weather_with_browser
pipeFrame ==
    <<created, user_message, parsed_response, uuids, lastOp, restrict_tools, cur, runs,
      new_steps>>
pipeLocals == <<user_text, city, nloop>>

NotifyText ==
    IF Zh(user_text)
    THEN <<"wo-jiang-cha-xun">> \o city \o <<"ming", "tian", "de", "tian", "qi",
                                              "bing-qie-huan-shu-ju-yuan">>
    ELSE <<"I will fetch tomorrow's forecast for ">> \o city
           \o <<", switching source if needed.">>

WttrUrl == <<"https://wttr.in/">> \o city \o <<"?format=j1">>

\* the fixed text of the pipeline's ErrorEvent
FailureText == <<"wu-fa-huo-qu", "tian", "qi", "shu-ju">>

\* what _fetch_weather_json can return, over the replies of the network
NetReplies == {NetFail} \cup WttrContents
WttrFetched == {FetchWeatherJson(reply) : reply \in NetReplies}

\* what _fetch_open_meteo can return for a city, over the replies of the
\* lookups and of the forecast request
OpenMeteoFetchedFor(names) ==
    {FetchOpenMeteo(names, geos, reply) :
        geos \in [1..Len(names) -> GeoReplies], reply \in ForecastReplies}
OpenMeteoFetchedLiteral == OpenMeteoFetchedFor(GeoNames(BeiJing))
OpenMeteoFetchedOther == OpenMeteoFetchedFor(<< <<"N", "Y">> >>)
OpenMeteoFetched == IF city = BeiJing THEN OpenMeteoFetchedLiteral ELSE OpenMeteoFetchedOther

\* the requests made once _fetch_weather_json and then, when wanted,
\* _fetch_open_meteo have been called again
Fetched(wttr, open_meteo) ==
    [wttr |-> fetched.wttr + (IF wttr THEN 1 ELSE 0),
     open_meteo |-> fetched.open_meteo + (IF open_meteo THEN 1 ELSE 0)]

\* the step completes with a summary: StepEvent(COMPLETED), MessageEvent
\* (the locals "data" and "wttr_data" are not read again)
Complete(text) ==
    /\ SetStep([plan[cur] EXCEPT !.status = COMPLETED, !.success = TRUE, !.result = text])
    /\ Yield(<<StepEvent("completed", plan'[cur]), MessageEvent(text)>>, "w_term")
    /\ data' = None
    /\ wttr_data' = None
    /\ UNCHANGED exit

\* after StepEvent(STARTED): the user is notified
W_Notify ==
    /\ pc = "w_started"
    /\ Yield(CallTool("message_notify_user", NotifyText), "w_notify")
    /\ UNCHANGED <<plan, pipeFrame, pipeLocals, exit, data, wttr_data, fetched>>

\* result_text of the secondary provider for what _fetch_open_meteo
\* returned, NoText without one
Secondary(open_meteo) ==
    IF Truthy(open_meteo) THEN FormatOpenMeteoResult(open_meteo, city, user_text)
    ELSE NoText

SecondaryRaises(open_meteo) == Truthy(open_meteo) /\ FormatOpenMeteoRaises(open_meteo)

\* The direct fetch gives nothing and the secondary provider completes the
\* step.
W_FetchSecondary(wttr, open_meteo) ==
    /\ pc = "w_notify" /\ queue = <<>>
    /\ ~Truthy(wttr)
    /\ ~SecondaryRaises(open_meteo)
    /\ TextTruthy(Secondary(open_meteo))
    /\ Complete(Secondary(open_meteo))
    /\ fetched' = Fetched(TRUE, TRUE)
    /\ UNCHANGED <<pipeFrame, pipeLocals>>

\* the summary of the secondary provider raises
W_FetchRaises(wttr, open_meteo) ==
    /\ pc = "w_notify" /\ queue = <<>>
    /\ ~Truthy(wttr)
    /\ SecondaryRaises(open_meteo)
    /\ Exit("raise")
    /\ UNCHANGED <<plan, pipeFrame>>

\* the direct fetch gave a payload, or the secondary provider gave no
\* summary: the browser navigates to the primary source
W_Navigate(wttr, open_meteo) ==
    /\ pc = "w_notify" /\ queue = <<>>
    /\ \/ Truthy(wttr)
       \/ ~SecondaryRaises(open_meteo) /\ ~TextTruthy(Secondary(open_meteo))
    /\ wttr_data' = wttr
    /\ fetched' = Fetched(TRUE, ~Truthy(wttr))
    /\ Yield(CallTool("browser_navigate", WttrUrl), "w_nav")
    /\ UNCHANGED <<plan, pipeFrame, pipeLocals, exit, data>>

\* the in-page script is run; result is what the tool returns as
\* data["result"] (the local "wttr_data" is not read after the navigation)
W_Console(result) ==
    /\ pc = "w_nav" /\ queue = <<>>
    /\ data' = ParseWeatherJson(result)
    /\ wttr_data' = None
    /\ Yield(CallTool("browser_console_exec", WttrUrl), "w_console")
    /\ UNCHANGED <<plan, pipeFrame, pipeLocals, exit, fetched>>

\* the script gave nothing: the page is read; content is data["content"]
W_View(content) ==
    /\ pc = "w_console" /\ queue = <<>>
    /\ ~Truthy(data)
    /\ data' = ParseWeatherJson(content)
    /\ Yield(CallTool("browser_view", <<>>), "w_view")
    /\ UNCHANGED <<plan, pipeFrame, pipeLocals, exit, wttr_data, fetched>>

\* the browser stage is over (the script gave a payload, or the page was read)
AfterBrowser ==
    /\ queue = <<>>
    /\ \/ pc = "w_console" /\ Truthy(data)
       \/ pc = "w_view"

\* data after the retry of the direct fetch, which returns wttr_data
FinalData(wttr) ==
    IF Truthy(data) THEN data ELSE wttr

\* result_text of the primary source, NoText without one
Primary(wttr) ==
    IF Truthy(FinalData(wttr)) /\ ~FormatWeatherRaises(FinalData(wttr))
    THEN FormatWeatherResult(FinalData(wttr), city, user_text)
    ELSE NoText

PrimaryRaises(wttr) ==
    Truthy(FinalData(wttr)) /\ FormatWeatherRaises(FinalData(wttr))

\* the primary payload is summarised
W_Primary(wttr) ==
    /\ AfterBrowser
    /\ TextTruthy(Primary(wttr))
    /\ Complete(Primary(wttr))
    /\ fetched' = Fetched(~Truthy(data), FALSE)
    /\ UNCHANGED <<pipeFrame, pipeLocals>>

\* the payload is truthy and no dict: _format_weather_result raises
W_PrimaryRaises(wttr) ==
    /\ AfterBrowser
    /\ PrimaryRaises(wttr)
    /\ Exit("raise")
    /\ UNCHANGED <<plan, pipeFrame>>

NoPrimary(wttr) ==
    /\ AfterBrowser
    /\ ~PrimaryRaises(wttr)
    /\ ~TextTruthy(Primary(wttr))

\* no primary summary: the step is marked FAILED, the secondary provider is
\* tried again and completes the step
W_RetrySecondary(wttr, open_meteo) ==
    /\ NoPrimary(wttr)
    /\ ~SecondaryRaises(open_meteo)
    /\ TextTruthy(Secondary(open_meteo))
    /\ Complete(Secondary(open_meteo))
    /\ fetched' = Fetched(~Truthy(data), TRUE)
    /\ UNCHANGED <<pipeFrame, pipeLocals>>

\* ... or its summary raises, the step left FAILED
W_RetryRaises(wttr, open_meteo) ==
    /\ NoPrimary(wttr)
    /\ SecondaryRaises(open_meteo)
    /\ SetStep([plan[cur] EXCEPT !.status = FAILED])
    /\ Exit("raise")
    /\ UNCHANGED pipeFrame

\* ... or it gives nothing: StepEvent(FAILED), ErrorEvent
W_Fail(wttr, open_meteo) ==
    /\ NoPrimary(wttr)
    /\ ~SecondaryRaises(open_meteo)
    /\ ~TextTruthy(Secondary(open_meteo))
    /\ SetStep([plan[cur] EXCEPT !.status = FAILED, !.error = FailureText])
    /\ Yield(<<StepEvent("failed", plan'[cur]), ErrorEvent(FailureText)>>, "w_term")
    /\ data' = None
    /\ wttr_data' = None
    /\ fetched' = Fetched(~Truthy(data), TRUE)
    /\ UNCHANGED <<pipeFrame, pipeLocals, exit>>

\* the pipeline returns after its last event
W_Return ==
    /\ pc = "w_term" /\ queue = <<>>
    /\ Exit("return")
    /\ UNCHANGED <<plan, pipeFrame>>

\* ------------------------------------------------------------------- spec
Next ==
    \/ \E m \in Messages, resp \in Responses : CreatePlan(m, resp)
    \/ \E resp \in Responses : UpdatePlan(resp)
    \/ \E resp \in Responses : UpdatePlanRejected(resp)
    \/ \E i \in 1..MaxSteps, m \in Messages : StartWeather(i, m)
    \/ \E i \in 1..MaxSteps, m \in Messages : StartGeneric(i, m)
    \/ YieldNext
    \/ Abandon
    \/ \E e \in LoopEvents : G_Error(e)
    \/ \E e \in LoopEvents, parsed \in ParsedSteps : G_Message(e, parsed)
    \/ \E e \in LoopEvents, parsed \in ParsedSteps : G_ParseRaises(e, parsed)
    \/ \E e \in LoopEvents : G_AskCalling(e)
    \/ \E e \in LoopEvents : G_AskCalled(e)
    \/ G_WaitReturn
    \/ \E e \in LoopEvents : G_Forward(e)
    \/ G_Exhausted
    \/ G_ExecuteRaises
    \/ W_Notify
    \/ \E w \in WttrFetched, om \in OpenMeteoFetched : W_FetchSecondary(w, om)
    \/ \E w \in WttrFetched, om \in OpenMeteoFetched : W_FetchRaises(w, om)
    \/ \E w \in WttrFetched, om \in OpenMeteoFetched : W_Navigate(w, om)
    \/ \E result \in WttrContents : W_Console(result)
    \/ \E content \in WttrContents : W_View(content)
    \/ \E w \in WttrFetched : W_Primary(w)
    \/ \E w \in WttrFetched : W_PrimaryRaises(w)
    \/ \E w \in WttrFetched, om \in OpenMeteoFetched : W_RetrySecondary(w, om)
    \/ \E w \in WttrFetched, om \in OpenMeteoFetched : W_RetryRaises(w, om)
    \/ \E w \in WttrFetched, om \in OpenMeteoFetched : W_Fail(w, om)
    \/ W_Return

Spec == Init /\ [][Next]_vars

\* ------------------------------------------------- update_plan on any plan
\* update_plan takes the plan it is given.  The plans: one to MaxSteps
\* steps, each in any status, a done step holding its outcome.
Statuses == {PENDING, RUNNING, COMPLETED, FAILED}

StepIn(k, status) ==
    [NewStep(<<ToString(k)>>, <<"a">>) EXCEPT
        !.status = status,
        !.success = (status = COMPLETED),
        !.result = IF status = COMPLETED THEN <<"r">> ELSE NoText,
        !.error = IF status = FAILED THEN ErrorText ELSE NoText]

Plans ==
    UNION {{[k \in 1..n |-> StepIn(k, st[k])] : st \in [1..n -> Statuses]} : n \in 1..MaxSteps}

InitPlan ==
    /\ plan \in Plans
    /\ created = TRUE
    /\ uuids = 0
    /\ lastOp = "none"
    /\ restrict_tools = FALSE
    /\ pc = "idle"
    /\ cur = 0
    /\ user_text = <<>>
    /\ city = NoText
    /\ emitted = <<>>
    /\ queue = <<>>
    /\ exit = "none"
    /\ nloop = 0
    /\ runs = 0
    /\ data = None
    /\ wttr_data = None
    /\ fetched = NoFetches
    /\ new_steps = <<>>
    /\ user_message = <<>>
    /\ parsed_response = NoReply

NextPlan ==
    \/ \E resp \in Responses : UpdatePlan(resp)
    \/ \E resp \in Responses : UpdatePlanRejected(resp)

SpecPlan == InitPlan /\ [][NextPlan]_vars

\* ------------------------------------------------ the planner on its own
\* create_plan and update_plan as functions of what they are given: a
\* message and a reply of the planner, any of each (a reply the plan model
\* rejects creates no plan, so that nothing is updated with it).
InitCreate ==
    /\ user_message \in Messages
    /\ parsed_response \in Responses
    /\ plan = <<>>
    /\ created = FALSE
    /\ uuids = 0
    /\ lastOp = "none"
    /\ restrict_tools = FALSE
    /\ pc = "idle"
    /\ cur = 0
    /\ user_text = <<>>
    /\ city = NoText
    /\ emitted = <<>>
    /\ queue = <<>>
    /\ exit = "none"
    /\ nloop = 0
    /\ runs = 0
    /\ data = None
    /\ wttr_data = None
    /\ fetched = NoFetches
    /\ new_steps = <<>>

NextCreate ==
    \/ CreatePlan(user_message, parsed_response)
    \/ UpdatePlan(parsed_response)

SpecCreate == InitCreate /\ [][NextCreate]_vars

\* ------------------------------------------ _extract_weather_city on texts
\* The texts it is given: the inbound messages, and every text made of up
\* to MaxParts of these parts: the literal token, the keyword, capitals, a
\* noise token, a blank, and the shortest text the first pattern matches.
FirstPatternText ==
    <<"w", "e", "a", "t", "h", "e", "r", "\\", "s", "i", "n", "\\", "s", "N">>

TextParts ==
    {BeiJing, TianQi, <<"N", "Y">>, <<"H", "K">>, <<"ming", "tian">>, <<" ">>, FirstPatternText}

RECURSIVE Concat(_)
Concat(parts) == IF parts = <<>> THEN <<>> ELSE Head(parts) \o Concat(Tail(parts))

Texts == Messages \cup {Concat(ps) : ps \in SeqsUpTo(TextParts, MaxParts)}

InitCity ==
    /\ user_text \in Texts
    /\ plan = <<>>
    /\ created = FALSE
    /\ uuids = 0
    /\ lastOp = "none"
    /\ restrict_tools = FALSE
    /\ pc = "idle"
    /\ cur = 0
    /\ city = NoText
    /\ emitted = <<>>
    /\ queue = <<>>
    /\ exit = "none"
    /\ nloop = 0
    /\ runs = 0
    /\ data = None
    /\ wttr_data = None
    /\ fetched = NoFetches
    /\ new_steps = <<>>
    /\ user_message = <<>>
    /\ parsed_response = NoReply

\* city = self._extract_weather_city(user_text)
ExtractCity ==
    /\ lastOp = "none"
    /\ city' = ExtractWeatherCity(user_text)
    /\ lastOp' = "_extract_weather_city"
    /\ UNCHANGED <<plan, created, user_message, parsed_response, uuids, restrict_tools,
                   pc, cur, user_text, emitted, queue,
                   exit, nloop, runs, data, wttr_data, fetched, new_steps>>

NextCity == ExtractCity

SpecCity == InitCity /\ [][NextCity]_vars

\* ---------------------------------------------- execute_step on its own
\* What an invocation of execute_step finds: a plan with one step that is
\* not done (PENDING, or RUNNING after an invocation that ended in WaitEvent
\* or was abandoned), and the flag as the earlier invocations left it: FALSE
\* after the constructor and after every invocation that went through the
\* finally clause, TRUE after one abandoned at StepEvent(STARTED).
AgentPlans ==
    {<<StepIn(1, PENDING)>>, <<StepIn(1, RUNNING)>>, <<NewStep(<<"1">>, WeatherWord)>>}

InitAgent ==
    /\ plan \in AgentPlans
    /\ created = TRUE
    /\ uuids = 0
    /\ lastOp = "none"
    /\ restrict_tools \in BOOLEAN
    /\ pc = "idle"
    /\ cur = 0
    /\ user_text = <<>>
    /\ city = NoText
    /\ emitted = <<>>
    /\ queue = <<>>
    /\ exit = "none"
    /\ nloop = 0
    /\ runs = 0
    /\ data = None
    /\ wttr_data = None
    /\ fetched = NoFetches
    /\ new_steps = <<>>
    /\ user_message = <<>>
    /\ parsed_response = NoReply

NextAgent ==
    \/ \E i \in 1..MaxSteps, m \in Messages : StartWeather(i, m)
    \/ \E i \in 1..MaxSteps, m \in Messages : StartGeneric(i, m)
    \/ YieldNext
    \/ Abandon
    \/ \E e \in LoopEvents : G_Error(e)
    \/ \E e \in LoopEvents, parsed \in ParsedSteps : G_Message(e, parsed)
    \/ \E e \in LoopEvents, parsed \in ParsedSteps : G_ParseRaises(e, parsed)
    \/ \E e \in LoopEvents : G_AskCalling(e)
    \/ \E e \in LoopEvents : G_AskCalled(e)
    \/ G_WaitReturn
    \/ \E e \in LoopEvents : G_Forward(e)
    \/ G_Exhausted
    \/ G_ExecuteRaises
    \/ W_Notify
    \/ \E w \in WttrFetched, om \in OpenMeteoFetched : W_FetchSecondary(w, om)
    \/ \E w \in WttrFetched, om \in OpenMeteoFetched : W_FetchRaises(w, om)
    \/ \E w \in WttrFetched, om \in OpenMeteoFetched : W_Navigate(w, om)
    \/ \E result \in WttrContents : W_Console(result)
    \/ \E content \in WttrContents : W_View(content)
    \/ \E w \in WttrFetched : W_Primary(w)
    \/ \E w \in WttrFetched : W_PrimaryRaises(w)
    \/ \E w \in WttrFetched, om \in OpenMeteoFetched : W_RetrySecondary(w, om)
    \/ \E w \in WttrFetched, om \in OpenMeteoFetched : W_RetryRaises(w, om)
    \/ \E w \in WttrFetched, om \in OpenMeteoFetched : W_Fail(w, om)
    \/ W_Return

SpecAgent == InitAgent /\ [][NextAgent]_vars


\* ---------------------------------------------------------------- claims
\* indices of the terminal StepEvents the invocation has emitted
TerminalEvents == {k \in DOMAIN emitted : IsTerminal(emitted[k])}

\* C1: the events emitted by one execute_step invocation hold at most one
\* terminal StepEvent (COMPLETED or FAILED).
C1_AtMostOneTerminal == Cardinality(TerminalEvents) <= 1

\* C1: the invocation has emitted StepEvent(FAILED) for an ErrorEvent of the
\* tool loop and then StepEvent(COMPLETED) for its MessageEvent.
C1_FailedThenCompleted ==
    \E j, k \in DOMAIN emitted :
        /\ j < k
        /\ emitted[j].type = "step" /\ emitted[j].status = "failed"
        /\ emitted[k].type = "step" /\ emitted[k].status = "completed"

\* C2: whenever no execute_step invocation is running (before the next one
\* and after the last one, however it ended) the restriction flag is false.
C2_FlagFalseOutside == pc = "idle" => ~restrict_tools

\* C2: the consumer abandoned the sequence right after StepEvent(STARTED)
\* and the flag is still set.
C2_FlagLeftSet ==
    /\ pc = "idle" /\ exit = "abandon"
    /\ Len(emitted) = 1
    /\ restrict_tools

\* C3: no invocation emits both a terminal StepEvent and a WaitEvent.
C3_NoTerminalWithWait ==
    ~(TerminalEvents # {} /\ \E k \in DOMAIN emitted : emitted[k].type = "wait")

\* C3: the sequence ended in WaitEvent after a terminal StepEvent.
C3_WaitAfterTerminal ==
    /\ pc = "idle" /\ exit = "wait"
    /\ emitted[Len(emitted)].type = "wait"
    /\ TerminalEvents # {}

\* C4: when an invocation has returned after its event source was exhausted
\* (no WaitEvent, no exception, not abandoned), it has emitted a terminal
\* StepEvent.
C4_TerminalOnReturn == (pc = "idle" /\ exit = "return") => TerminalEvents # {}

\* C4: the invocation returned normally with the step COMPLETED, having
\* emitted StepEvent(STARTED) and nothing else.
C4_SilentCompletion ==
    /\ pc = "idle" /\ exit = "return"
    /\ Len(emitted) = 1
    /\ plan[cur].status = COMPLETED

\* C5: a step whose status is COMPLETED or FAILED keeps that status in
\* every later state: no action changes the status of a done step.
C5_TerminalStatusStable ==
    [][\A i \in DOMAIN plan :
          (IsDone(plan[i]) /\ i \in DOMAIN plan' /\ plan'[i].id = plan[i].id)
              => plan'[i].status = plan[i].status]_vars

\* C5: execute_step has returned with the step COMPLETED although the last
\* StepEvent it emitted for it says FAILED.
C5_FailedOverwritten ==
    /\ pc = "idle" /\ exit = "return"
    /\ plan[cur].status = COMPLETED
    /\ TerminalEvents # {}
    /\ \A k \in TerminalEvents : emitted[k].status = "failed"


\* the browser functions of the pipeline
BrowserTools == {"browser_navigate", "browser_console_exec", "browser_view"}

\* indices of the browser ToolEvents the invocation has emitted
BrowserEvents ==
    {k \in DOMAIN emitted : emitted[k].type = "tool" /\ emitted[k].name \in BrowserTools}

\* the first direct fetch returned a payload the primary formatter turns
\* into a summary
PrimaryUsable ==
    /\ Truthy(wttr_data)
    /\ ~FormatWeatherRaises(wttr_data)
    /\ TextTruthy(FormatWeatherResult(wttr_data, city, user_text))

\* C6: the pipeline stops at the first strategy that succeeds: when the
\* first direct fetch returned a usable payload, no browser function is
\* invoked.
C6_StopAtFirstSuccess == PrimaryUsable => BrowserEvents = {}

\* C6: the browser has navigated although the first direct fetch had
\* returned a usable payload.
C6_BrowserAfterPrimary ==
    /\ pc = "w_nav"
    /\ PrimaryUsable
    /\ \E k \in BrowserEvents : emitted[k].name = "browser_navigate"

\* the pipeline's invocation is over and was not abandoned by the consumer
PipelineOver ==
    lastOp = "_execute_weather_with_browser" /\ pc = "idle" /\ exit # "abandon"

\* C7: the pipeline never raises: an invocation the consumer reads to its
\* end returns, and its last two events are StepEvent(COMPLETED) and a
\* MessageEvent, or StepEvent(FAILED) and an ErrorEvent.
C7_PipelineNeverRaises ==
    PipelineOver =>
        /\ exit = "return"
        /\ Len(emitted) >= 2
        /\ LET last == emitted[Len(emitted)]
                step == emitted[Len(emitted) - 1]
            IN  /\ IsTerminal(step)
                /\ step.status = "completed" => last.type = "message"
                /\ step.status = "failed" => last.type = "error"

\* C7: the pipeline's invocation ended with an exception before any
\* terminal StepEvent.
C7_PipelineRaised == PipelineOver /\ exit = "raise" /\ TerminalEvents = {}

\* indices of the ErrorEvents the invocation has emitted
ErrorEvents == {k \in DOMAIN emitted : emitted[k].type = "error"}

\* C8: when every strategy of the pipeline has failed there is exactly one
\* ErrorEvent, its text is not empty, and it is Chinese exactly when the
\* inbound text selects Chinese (the choice made for the summaries).
C8_FailureTextInLocale ==
    (pc = "w_term" /\ queue = <<>> /\ plan[cur].status = FAILED) =>
        /\ Cardinality(ErrorEvents) = 1
        /\ \A k \in ErrorEvents :
              /\ emitted[k].args # <<>>
              /\ InChinese(emitted[k].args) <=> Zh(user_text)

\* C8: the pipeline has failed for an inbound text that selects English and
\* its ErrorEvent carries the Chinese text.
C8_ChineseFailureForEnglish ==
    /\ pc = "w_term" /\ queue = <<>> /\ plan[cur].status = FAILED
    /\ ~Zh(user_text)
    /\ emitted[Len(emitted)].type = "error"
    /\ InChinese(emitted[Len(emitted)].args)


\* C9: update_plan on a plan whose first not-done step is at index i leaves
\* steps[1..i-1] as they were and in place, followed by the steps made of
\* the sanitized candidates in their order; every step from index i onward
\* is removed.
C9_SpliceIsPrefixPlusCandidates ==
    [][\A i \in DOMAIN plan :
          (/\ lastOp' = "update_plan"
           /\ ~IsDone(plan[i])
           /\ \A j \in 1..(i - 1) : IsDone(plan[j]))
              => /\ Len(plan') = (i - 1) + Len(new_steps')
                 /\ \A j \in 1..(i - 1) : plan'[j] = plan[j]
                 /\ \A k \in 1..Len(new_steps') : plan'[i - 1 + k] = new_steps'[k]]_vars

\* C9: update_plan has kept a FAILED first step and put the candidate
\* (" a", "1 ") in the place of everything after it.
C9_PrefixKeptTailReplaced ==
    /\ lastOp = "update_plan"
    /\ Len(plan) = 2
    /\ plan[1] = StepIn(1, FAILED)
    /\ plan[2] = NewStep(<<"1">>, <<"a">>)
    /\ new_steps = <<plan[2]>>

\* the done steps of a plan, in order
DoneSteps(steps) == SelectSeq(steps, IsDone)

\* a is a subsequence of b
IsSubSeq(a, b) ==
    \E f \in [1..Len(a) -> 1..Len(b)] :
        /\ \A j, k \in 1..Len(a) : j < k => f[j] < f[k]
        /\ \A k \in 1..Len(a) : b[f[k]] = a[k]

\* C10: every step that is done before update_plan is in the plan after
\* it, unchanged and in the same relative order, wherever it sits.
C10_DoneStepsSurvive ==
    [][lastOp' = "update_plan" => IsSubSeq(DoneSteps(plan), plan')]_vars

\* every step of the plan is done
AllDone(steps) == \A i \in DOMAIN steps : IsDone(steps[i])

\* C11: update_plan on a plan whose steps are all COMPLETED or FAILED leaves
\* the step sequence as it was, whatever the planner replied (a reply the
\* plan model rejects included); so does any number of such calls.
C11_AllDoneUnchanged ==
    [][(lastOp' \in {"update_plan", "update_plan_rejected"} /\ AllDone(plan))
          => plan' = plan]_vars

\* C11: update_plan was given a non-empty candidate list and the plan, not
\* empty, holds done steps only.
C11_AllDoneKept ==
    /\ lastOp = "update_plan"
    /\ new_steps # <<>>
    /\ plan # <<>>
    /\ AllDone(plan)

\* the invocation's last event so far is a WaitEvent
EndsInWait == emitted # <<>> /\ emitted[Len(emitted)].type = "wait"

\* C12: when the event sequence of an invocation ends with WaitEvent, the
\* step is neither COMPLETED nor FAILED.
C12_WaitLeavesStepOpen == EndsInWait => ~IsDone(plan[cur])

\* C12: the invocation has just yielded WaitEvent for a step an earlier
\* ErrorEvent of the tool loop marked FAILED.
C12_WaitOnFailedStep ==
    /\ pc = "g_wait"
    /\ EndsInWait
    /\ plan[cur].status = FAILED

\* C13: the first event of every invocation is StepEvent(STARTED) of the
\* step being executed, carrying the status RUNNING; an invocation that is
\* under way has emitted it, and no later event is a StepEvent(STARTED).
C13_StartedFirst ==
    /\ pc # "idle" => emitted # <<>>
    /\ emitted # <<>> =>
          /\ emitted[1].type = "step" /\ emitted[1].status = "started"
          /\ emitted[1].step.status = RUNNING
          /\ emitted[1].step.id = plan[cur].id
          /\ \A k \in 2..Len(emitted) :
                ~(emitted[k].type = "step" /\ emitted[k].status = "started")

\* C13: the pipeline has emitted its last event; the first one was
\* StepEvent(STARTED).
C13_PipelineStartedFirst ==
    /\ pc = "w_term" /\ queue = <<>>
    /\ Len(emitted) > 2
    /\ emitted[1].type = "step" /\ emitted[1].status = "started"

\* C14: wherever the invocation is suspended or has returned, the step has
\* a result text only if it is COMPLETED and an error text only if it is
\* FAILED.
C14_OutcomeMatchesStatus ==
    cur \in DOMAIN plan =>
        /\ TextTruthy(plan[cur].result) => plan[cur].status = COMPLETED
        /\ TextTruthy(plan[cur].error) => plan[cur].status = FAILED

\* C14: execute_step has returned with the step COMPLETED and holding the
\* error text of an ErrorEvent.
C14_CompletedWithError ==
    /\ pc = "idle" /\ exit = "return"
    /\ plan[cur].status = COMPLETED
    /\ plan[cur].error = ErrorText

\* the group of the second pattern without the noise tokens, trimmed
CleanedGroup(text) == Strip(RemoveEach(Search3(text), CityNoise))

\* C15: a text that holds the literal token gives that token, whatever the
\* patterns would extract; without the literal token the first pattern
\* decides when it matches, else the second pattern when it matches (its
\* cleaned group, no key when nothing is left of it); when neither matches
\* no key is extracted.
C15_LiteralThenPatterns ==
    lastOp = "_extract_weather_city" =>
        IF Contains(user_text, BeiJing) THEN city = BeiJing
        ELSE IF Search1(user_text) # NoText THEN city = Strip(Search1(user_text))
        ELSE IF Search3(user_text) # NoText
             THEN city = (IF CleanedGroup(user_text) = <<>> THEN NoText
                          ELSE CleanedGroup(user_text))
        ELSE city = NoText

\* C15: the literal token was extracted from a text in which the second
\* pattern matches and would extract another key.
C15_LiteralBeatsPattern ==
    /\ lastOp = "_extract_weather_city"
    /\ Contains(user_text, BeiJing)
    /\ Search1(user_text) = NoText
    /\ Search3(user_text) \notin {NoText, BeiJing}
    /\ city = BeiJing


\* the positions of an invocation inside the retrieval pipeline
PipelineLabels == {"w_started", "w_notify", "w_nav", "w_console", "w_view", "w_term"}

\* C16: an invocation whose step is a weather step with an extractable city
\* enters the retrieval pipeline, and from there on it stays in the pipeline
\* until it ends: no event of the tool loop is consumed and the restriction
\* flag keeps the value it had when the invocation began.
C16_PipelineOnly ==
    [][/\ (/\ pc = "idle" /\ pc' # "idle"
           /\ ForceWeather(user_text', plan[cur'].description)
           /\ TextTruthy(ExtractWeatherCity(user_text')))
          => (pc' = "w_started" /\ restrict_tools' = restrict_tools)
       /\ pc \in PipelineLabels
          => /\ pc' \in PipelineLabels \cup {"idle"}
             /\ restrict_tools' = restrict_tools
             /\ nloop' = 0]_vars

\* C16: a pipeline invocation has returned with the step completed and the
\* flag, set before it began, still set.
C16_PipelineKeptFlag ==
    /\ lastOp = "_execute_weather_with_browser"
    /\ pc = "idle" /\ exit = "return"
    /\ plan[cur].status = COMPLETED
    /\ restrict_tools


\* indices of the ToolEvents with the given status the invocation has emitted
ToolEventsAt(status) ==
    {k \in DOMAIN emitted : emitted[k].type = "tool" /\ emitted[k].status = status}

\* the tool the pipeline has invoked last when it stands at the given position
ToolInvokedAt ==
    [l \in {"w_notify", "w_nav", "w_console", "w_view"} |->
        CASE l = "w_notify" -> "message_notify_user"
          [] l = "w_nav" -> "browser_navigate"
          [] l = "w_console" -> "browser_console_exec"
          [] l = "w_view" -> "browser_view"]

\* C17: in what a pipeline invocation has yielded, every CALLING ToolEvent
\* is followed at once by the CALLED event with the same call id, function
\* name and arguments (it is the next event to be yielded, or the consumer
\* abandoned the sequence there, when CALLING is the last one yielded);
\* every CALLED event follows its CALLING event; different calls have
\* different ids; and a tool the pipeline has invoked has its CALLING event
\* in the sequence.
C17_ToolCallsPaired ==
    lastOp = "_execute_weather_with_browser" =>
        /\ \A k \in ToolEventsAt("calling") :
              IF k < Len(emitted)
              THEN emitted[k + 1] = [emitted[k] EXCEPT !.status = "called"]
              ELSE \/ exit = "abandon"
                   \/ queue # <<>> /\ Head(queue) = [emitted[k] EXCEPT !.status = "called"]
        /\ \A k \in ToolEventsAt("called") :
              k > 1 /\ emitted[k - 1] = [emitted[k] EXCEPT !.status = "calling"]
        /\ \A j, k \in ToolEventsAt("calling") : emitted[j].id = emitted[k].id => j = k
        /\ pc \in DOMAIN ToolInvokedAt =>
              \E k \in ToolEventsAt("calling") : emitted[k].name = ToolInvokedAt[pc]

\* C17: the pipeline has notified the user, navigated, run the script and
\* read the page, and all eight events have been yielded.
C17_FourPairsEmitted ==
    /\ lastOp = "_execute_weather_with_browser"
    /\ pc = "w_view" /\ queue = <<>>
    /\ Cardinality(ToolEventsAt("calling")) = 4
    /\ Cardinality(ToolEventsAt("called")) = 4


\* C18: a pipeline invocation that is over without having invoked a browser
\* tool took the branch of the secondary provider, whose response passed
\* the checks on its series (a list each, two entries or more): the step is
\* completed, its result is the summary, and the summary was yielded as the
\* MessageEvent after StepEvent(COMPLETED).
C18_SecondaryCompletes ==
    (PipelineOver /\ BrowserEvents = {}) =>
        /\ plan[cur].status = COMPLETED
        /\ TextTruthy(plan[cur].result)
        /\ Len(emitted) >= 2
        /\ emitted[Len(emitted) - 1].type = "step"
        /\ emitted[Len(emitted) - 1].status = "completed"
        /\ emitted[Len(emitted)] = MessageEvent(plan[cur].result)

\* C18: the invocation raised after the notification, before any browser
\* tool, and left the step running.
C18_SecondaryRaised ==
    /\ PipelineOver /\ BrowserEvents = {}
    /\ exit = "raise"
    /\ Len(emitted) = 3
    /\ plan[cur].status = RUNNING


\* the descriptions of a list of steps, in order
Described(steps) == [k \in DOMAIN steps |-> steps[k].description]

LoopLabels == {"g_started", "g_loop", "g_wait"}

\* C20: while an invocation runs the tool loop, the tools offered are all
\* but "search" when the step is a weather step without a city, and all the
\* tools for any other step, whatever the earlier invocations were.
C20_RestrictedOnlyForWeatherStep ==
    pc \in LoopLabels =>
        GetAvailableTools =
            (IF ForceWeather(user_text, plan[cur].description) THEN Tools \ {"search"}
             ELSE Tools)

\* C20: a step that is not a weather step runs the tool loop and has
\* consumed an event of it, with "search" not among the tools offered.
C20_GenericStepRestricted ==
    /\ pc = "g_loop" /\ nloop > 0
    /\ ~ForceWeather(user_text, plan[cur].description)
    /\ "search" \notin GetAvailableTools


\* the events of the ask-user function
IsAskUser(e) == e.type = "tool" /\ e.name = "message_ask_user"

\* C21: in an invocation of the generic path a WaitEvent is the last event
\* yielded, with nothing left to yield and the invocation suspended at it or
\* over; no event of the ask-user function is yielded or waiting to be
\* yielded.  The CALLED event of the ask-user function yields WaitEvent and
\* nothing else, the CALLING event yields a MessageEvent with its "text"
\* argument (empty without one) and nothing else, and from the yield of
\* WaitEvent the invocation only ends, yielding nothing and consuming no
\* event of the tool loop.
C21_WaitEndsSequence ==
    /\ [](lastOp = "execute_step" =>
            /\ \A k \in DOMAIN emitted :
                  /\ ~IsAskUser(emitted[k])
                  /\ emitted[k].type = "wait" =>
                        k = Len(emitted) /\ queue = <<>> /\ pc \in {"g_wait", "idle"}
            /\ \A k \in DOMAIN queue : ~IsAskUser(queue[k]))
    /\ [][/\ \A e \in LoopEvents :
                /\ G_AskCalled(e) => emitted' = Append(emitted, WaitEvent) /\ queue' = <<>>
                /\ G_AskCalling(e) =>
                      /\ emitted' = Append(emitted,
                                           MessageEvent(IF IsStr(e.args) THEN e.args ELSE <<>>))
                      /\ queue' = <<>>
          /\ pc = "g_wait" => pc' = "idle" /\ emitted' = emitted /\ exit' \in {"wait", "abandon"}
         ]_vars

\* C21: the tool loop asked the user; the invocation yielded the prompt as a
\* MessageEvent, then WaitEvent, and returned.
C21_PromptThenWait ==
    /\ lastOp = "execute_step"
    /\ pc = "idle" /\ exit = "wait"
    /\ emitted[Len(emitted) - 1] = MessageEvent(PromptText)
    /\ emitted[Len(emitted)] = WaitEvent


\* indices of the StepEvent(FAILED)s the invocation has emitted
FailedEvents == {k \in DOMAIN emitted : emitted[k].type = "step" /\ emitted[k].status = "failed"}

\* C22: on the generic path an ErrorEvent of the tool loop sets the step
\* FAILED with the event's text as its error, yields StepEvent(FAILED) of
\* that step and has the event itself as the one event to yield next.  So
\* every ErrorEvent yielded follows a StepEvent(FAILED) whose step is FAILED
\* with the event's text, every StepEvent(FAILED) is followed by that
\* ErrorEvent (or it is the next to be yielded, or the consumer stopped
\* there), and the step is FAILED with that text while the pair is the last
\* thing yielded by a running invocation.
C22_ErrorFailsAndForwards ==
    /\ [](lastOp = "execute_step" =>
            /\ \A k \in ErrorEvents :
                  /\ k - 1 \in FailedEvents
                  /\ emitted[k - 1].step.status = FAILED
                  /\ emitted[k - 1].step.error = emitted[k].args
                  /\ emitted[k] \in LoopEvents
                  /\ (k = Len(emitted) /\ pc # "idle") =>
                        plan[cur].status = FAILED /\ plan[cur].error = emitted[k].args
            /\ \A k \in FailedEvents :
                  IF k < Len(emitted) THEN emitted[k + 1] = ErrorEvent(emitted[k].step.error)
                  ELSE \/ exit = "abandon"
                       \/ /\ queue = <<ErrorEvent(emitted[k].step.error)>>
                          /\ plan[cur] = emitted[k].step)
    /\ [][\A e \in LoopEvents :
            G_Error(e) =>
                /\ plan'[cur].status = FAILED /\ plan'[cur].error = e.args
                /\ emitted' = Append(emitted, StepEvent("failed", plan'[cur]))
                /\ queue' = <<e>>]_vars

\* C22: the tool loop's first event was an ErrorEvent; StepEvent(FAILED) and
\* the ErrorEvent have been yielded and the step is FAILED with its text.
C22_FailedThenError ==
    /\ lastOp = "execute_step"
    /\ pc = "g_loop" /\ queue = <<>>
    /\ Len(emitted) = 3
    /\ 2 \in FailedEvents
    /\ emitted[3] = ErrorEvent(ErrorText)
    /\ plan[cur].status = FAILED /\ plan[cur].error = ErrorText


\* indices of the StepEvent(COMPLETED)s the invocation has emitted
CompletedEvents ==
    {k \in DOMAIN emitted : emitted[k].type = "step" /\ emitted[k].status = "completed"}

\* the MessageEvents the tool loop yields
RawMessages == {e \in LoopEvents : e.type = "message"}

\* what is yielded after StepEvent(COMPLETED) of a step: a MessageEvent with
\* its result when the result is neither missing nor empty, else nothing
DerivedMessage(step) ==
    IF TextTruthy(step.result) THEN <<MessageEvent(step.result)>> ELSE <<>>

C24_FailedAfterAllRetries ==
    /\ [](lastOp = "_execute_weather_with_browser" =>
            /\ fetched.wttr <= 2 /\ fetched.open_meteo <= 2
            /\ (pc # "idle" /\ FailedEvents # {}) =>
                  /\ fetched.wttr = 2
                  /\ fetched.open_meteo >= 1
                  /\ BrowserEvents # {})
    /\ [][(lastOp = "_execute_weather_with_browser" /\ FailedEvents = {} /\ FailedEvents' # {})
             => /\ pc \in {"w_console", "w_view"}
                /\ fetched'.open_meteo = fetched.open_meteo + 1]_vars

\* C24: StepEvent(FAILED) has been yielded by an invocation that asked the
\* primary source directly once only: the browser's payload was parsed and
\* gave no summary.
C24_FailedWithoutRetry ==
    /\ lastOp = "_execute_weather_with_browser"
    /\ pc = "w_term"
    /\ FailedEvents # {}
    /\ fetched.wttr = 1


\* an entry of the planner's list has a description that is a text and is
\* not blank
HasDescription(item) ==
    item.isDict /\ IsStr(item.description) /\ Strip(item.description) # <<>>

\* the trimmed descriptions of the entries that have one, in their order
KeptDescriptions(steps) ==
    LET kept == SelectSeq(steps, HasDescription)
    IN  [k \in DOMAIN kept |-> Strip(kept[k].description)]

\* C25: the steps update_plan takes from a reply, and the steps of a plan
\* created for a message that is not a weather query, are the reply's
\* entries that have a non-blank text description, in their order, each with
\* its description trimmed: as many steps as such entries, none for an
\* entry without a description or with a blank one.
C25_SanitizedEntriesKept ==
    /\ (lastOp = "create_plan" /\ ~IsWeatherQuery(user_message)) =>
          Described(plan) = KeptDescriptions(parsed_response.steps)
    /\ lastOp = "update_plan" =>
          /\ Described(new_steps) = KeptDescriptions(parsed_response.steps)
          /\ \A k \in DOMAIN new_steps :
                new_steps[k].description # <<>>
                    /\ Strip(new_steps[k].description) = new_steps[k].description

\* C25: update_plan took one step, trimmed, from a reply of two entries,
\* one of which had no usable description.
C25_EntryDroppedAndTrimmed ==
    /\ lastOp = "update_plan"
    /\ Len(parsed_response.steps) = 2
    /\ Len(new_steps) = 1
    /\ \E k \in 1..2 : /\ HasDescription(parsed_response.steps[k])
                       /\ parsed_response.steps[k].description # new_steps[1].description
                       /\ Strip(parsed_response.steps[k].description) = new_steps[1].description


\* the identifiers of the steps are pairwise distinct
DistinctIds(steps) == \A j, k \in DOMAIN steps : steps[j].id = steps[k].id => j = k

\* C26: update_plan on a plan whose step identifiers are pairwise distinct
\* gives a plan whose step identifiers are pairwise distinct, whatever the
\* planner replied.
C26_IdsStayUnique ==
    [][(lastOp' = "update_plan" /\ DistinctIds(plan)) => DistinctIds(plan')]_vars

\* C26: after update_plan a step taken from the reply carries the
\* identifier of the done step kept before it.
C26_CandidateReusesDoneId ==
    /\ lastOp = "update_plan"
    /\ Len(plan) = 2
    /\ IsDone(plan[1]) /\ ~IsDone(plan[2])
    /\ plan[2] = new_steps[1]
    /\ plan[1].id = plan[2].id

====
